---- MODULE Spec2Model ----
(***************************************************************************)
(* A model of src/web_socket_connection.rs: one WebSocket session actor    *)
(* (MyWs) that dispatches protocol events to the Python handlers of its    *)
(* router and writes their results back through its WebsocketContext.      *)
(*                                                                         *)
(* The session's state is the struct MyWs (ws), the context's lifecycle    *)
(* (phase), the frames pushed with ctx.text / ctx.pong / ctx.binary        *)
(* (messages), the futures handed to ctx.spawn (items), the records        *)
(* written with error! (errlog), and two histories used to state the       *)
(* properties: the inbound events handled so far (inbound) and the         *)
(* handler invocations made so far (calls).  issued lists the identities   *)
(* that start_web_socket has assigned, the current session's last.         *)
(*                                                                         *)
(* A panic (an unwrap on None or Err) unwinds the session's control flow:  *)
(* the session is then in the phase "Crashed" and takes no further step.   *)
(***************************************************************************)
EXTENDS Integers, Sequences, FiniteSets, TLC

VARIABLES ws, phase, inbound, calls, messages, items, errlog, issued

vars == <<ws, phase, inbound, calls, messages, items, errlog, issued>>

(***************************************************************************)
(* Bounds of the model.                                                    *)
(***************************************************************************)
\* inbound events delivered to one session
MaxEvents == 2
\* sessions constructed one after another (SpecSessions)
MaxSessions == 2

(***************************************************************************)
(* Values.                                                                 *)
(***************************************************************************)
\* u8::MAX, the upper end of the match arm 2_u8..=u8::MAX
U8Max == 255

\* the event vocabulary the session looks up
EventNames == {"connect", "message", "close"}

\* Uuid values (abbreviated to four nibbles) that Uuid::new_v4 may return
Uuids == {<<6, 7, 14, 5>>, <<10, 1, 11, 2>>}

\* payloads of inbound Text frames
Texts == {"ping"}

\* payloads of inbound Binary, Ping and Pong frames
Bins == {"DEADBEEF"}

\* strings a handler may return
RetStrings == {"pong"}

\* Option<String>: None is the empty tuple, Some(s) a one-element tuple
None == <<>>

Some(s) == <<s>>

\* Option::unwrap_or_default on Option<String>
unwrap_or_default(o) == IF o = None THEN "" ELSE o[1]

\* Option::unwrap_or(String::from("OK")) on the extracted result
unwrap_or_OK(o) == IF o = None THEN "OK" ELSE o[1]

HexDigits == <<"0", "1", "2", "3", "4", "5", "6", "7",
               "8", "9", "a", "b", "c", "d", "e", "f">>

\* Uuid::to_string: the lower-case hexadecimal rendering of the value
RECURSIVE to_string(_)
to_string(u) ==
    IF u = <<>> THEN "" ELSE HexDigits[Head(u) + 1] \o to_string(Tail(u))

\* FunctionInfo as far as this file reads it: number_of_params and is_async
\* (the handler itself is the Python callable, see Behaviours)
Arities == {0, 1, 2, U8Max}

FunctionInfos == [number_of_params : Arities, is_async : BOOLEAN]

\* the registries a session is constructed with: every subset of the event
\* vocabulary may be registered; the handlers of one registry share one
\* descriptor
Routers ==
    UNION {
        {r \in [D -> FunctionInfos] : \A a, b \in D : r[a] = r[b]}
        : D \in SUBSET EventNames}

\* the complete registries among them
SessionRouters == {r \in Routers : DOMAIN r = EventNames}

\* the complete registries whose handlers all declare (id, message) and
\* whose message handler is suspending
SuspendingMessageRouters ==
    {r \in [EventNames -> FunctionInfos] :
        /\ \A a \in EventNames : r[a].number_of_params = 2
        /\ r["message"].is_async}

\* what a call of a Python callable registered as synchronous does: return a
\* string, return None, raise, or return a value that is no string ("other")
SyncBehaviours ==
    [kind : {"str"}, val : RetStrings]
        \cup [kind : {"none", "raise", "other"}, val : {""}]

\* what a call of a callable registered as async does: hand back a coroutine
\* that into_future_with_locals accepts, or fail before one exists (the call
\* raises, or its value is not awaitable)
AsyncBehaviours == [kind : {"coroutine", "callraise"}, val : {""}]

\* what an awaited coroutine does: resolve to a string, resolve to None or to
\* another value that is no string, or raise
Resolutions == SyncBehaviours

Behaviours(function) ==
    IF function.is_async THEN AsyncBehaviours ELSE SyncBehaviours

(***************************************************************************)
(* get_function_output: the positional arguments the handler is called     *)
(* with, by the handler's declared number of parameters.                   *)
(***************************************************************************)
\* variant: a one-parameter handler is passed the payload as well
get_function_output_payload_always(function, fn_msg, w) ==
    IF function.number_of_params = 0 THEN <<>>
    ELSE <<to_string(w.id), unwrap_or_default(fn_msg)>>

\* variant: every call is passed a newly chosen identity
get_function_output_other_id(function, fn_msg, w) ==
    LET u == CHOOSE x \in Uuids : x # w.id
    IN IF function.number_of_params = 0 THEN <<>>
       ELSE IF function.number_of_params = 1 THEN <<to_string(u)>>
       ELSE <<to_string(u), unwrap_or_default(fn_msg)>>

get_function_output(function, fn_msg, w) ==
    IF function.number_of_params = 0 THEN <<>>
    ELSE IF function.number_of_params = 1 THEN <<to_string(w.id)>>
    ELSE <<to_string(w.id), unwrap_or_default(fn_msg)>>

\* a frame pushed to the context's outbound queue; ev is the index of the
\* inbound event being handled (0 in the lifecycle hooks), inv the index in
\* calls of the invocation whose result it carries (0 when it carries none)
Frame(kind, payload, ev, inv) ==
    [kind |-> kind, payload |-> payload, ev |-> ev, inv |-> inv]

\* variant: the acknowledgement is written whatever the handler returned
SyncReplyAlwaysOK(result, ev, inv) == <<Frame("Text", "OK", ev, inv)>>

\* variant: an absent result is written as the empty string
SyncReplyNoDefault(result, ev, inv) ==
    <<Frame("Text", unwrap_or_default(result), ev, inv)>>

\* ctx.text(result.unwrap_or(String::from("OK"))) of the synchronous branch
SyncReply(result, ev, inv) == <<Frame("Text", unwrap_or_OK(result), ev, inv)>>

\* variant: the completion closure writes its frame twice
AsyncReplyTwice(res, ev, inv) ==
    <<Frame("Text", res, ev, inv), Frame("Text", res, ev, inv)>>

\* ctx.text(res) of the completion closure of the suspending branch
AsyncReply(res, ev, inv) == <<Frame("Text", res, ev, inv)>>

(***************************************************************************)
(* execute_ws_function: what one call does, given the behaviour b of the   *)
(* Python callable: the frames it pushes, the futures it spawns, the       *)
(* records it logs, and whether an unwrap panics.                          *)
(***************************************************************************)
Effect(panic, frames, spawn, logs) ==
    [panic |-> panic, frames |-> frames, spawn |-> spawn, logs |-> logs]

execute_ws_function(function, b, ev, inv) ==
    IF function.is_async
    THEN IF b.kind = "callraise"
         THEN Effect(TRUE, <<>>, {}, <<>>)
         ELSE Effect(FALSE, <<>>, {inv}, <<>>)
    ELSE IF b.kind = "raise"
         THEN Effect(TRUE, <<>>, {}, <<>>)
         ELSE IF b.kind = "other"
              THEN Effect(FALSE, <<>>, {}, <<[inv |-> inv]>>)
              ELSE Effect(FALSE,
                          SyncReply(IF b.kind = "none" THEN None ELSE Some(b.val),
                                    ev, inv),
                          {}, <<>>)

\* variant: the frames of the caller are queued before the handler's reply
InvokeFramesFirst(hook, name, text, ev, after, next) ==
    IF name \notin DOMAIN ws.router
    THEN /\ phase' = "Crashed"
         /\ UNCHANGED <<calls, messages, items, errlog>>
    ELSE \E b \in Behaviours(ws.router[name]) :
            LET function == ws.router[name]
                inv == Len(calls) + 1
                eff == execute_ws_function(function, b, ev, inv)
            IN /\ calls' = Append(calls,
                                  [hook |-> hook, name |-> name, ev |-> ev,
                                   args |-> get_function_output(function, text, ws),
                                   is_async |-> function.is_async, out |-> b])
               /\ IF eff.panic
                  THEN /\ phase' = "Crashed"
                       /\ UNCHANGED <<messages, items, errlog>>
                  ELSE /\ phase' = next
                       /\ messages' = messages \o after \o eff.frames
                       /\ items' = items \cup eff.spawn
                       /\ errlog' = errlog \o eff.logs

(***************************************************************************)
(* One lookup-and-invoke, as every hook and every arm does it:             *)
(*   let function = self.router.get(name).unwrap();                        *)
(*   execute_ws_function(function, text, &self.task_locals, ctx, self);    *)
(* followed by the frames the arm pushes afterwards and the phase the      *)
(* session is in when the hook or arm returns.  A panic unwinds the        *)
(* session's control flow: the session is Crashed and does nothing more.   *)
(***************************************************************************)
Invoke(hook, name, text, ev, after, next) ==
    IF name \notin DOMAIN ws.router
    THEN /\ phase' = "Crashed"
         /\ UNCHANGED <<calls, messages, items, errlog>>
    ELSE \E b \in Behaviours(ws.router[name]) :
            LET function == ws.router[name]
                inv == Len(calls) + 1
                eff == execute_ws_function(function, b, ev, inv)
            IN /\ calls' = Append(calls,
                                  [hook |-> hook, name |-> name, ev |-> ev,
                                   args |-> get_function_output(function, text, ws),
                                   is_async |-> function.is_async, out |-> b])
               /\ IF eff.panic
                  THEN /\ phase' = "Crashed"
                       /\ UNCHANGED <<messages, items, errlog>>
                  ELSE /\ phase' = next
                       /\ messages' = messages \o eff.frames \o after
                       /\ items' = items \cup eff.spawn
                       /\ errlog' = errlog \o eff.logs

(***************************************************************************)
(* start_web_socket: ws::start(MyWs { router, task_locals, id: new_v4() }) *)
(***************************************************************************)
start_web_socket(router, u) ==
    /\ ws = [id |-> u, router |-> router]
    /\ phase = "Starting"
    /\ inbound = <<>>
    /\ calls = <<>>
    /\ messages = <<>>
    /\ items = {}
    /\ errlog = <<>>

Init ==
    \E router \in Routers, u \in Uuids :
        /\ start_web_socket(router, u)
        /\ issued = <<u>>

(***************************************************************************)
(* impl Actor for MyWs                                                     *)
(***************************************************************************)
\* variant: the start hook does not invoke connect
StartedSkipsConnect ==
    /\ phase = "Starting"
    /\ phase' = "Active"
    /\ UNCHANGED <<ws, inbound, calls, messages, items, errlog, issued>>

\* fn started
Started ==
    /\ phase = "Starting"
    /\ Invoke("started", "connect", None, 0, <<>>, "Active")
    /\ UNCHANGED <<ws, inbound, issued>>

\* the stream of inbound frames ends (peer disconnect, local shutdown): the
\* default StreamHandler::finished stops the context
Finished ==
    /\ phase = "Active"
    /\ phase' = "Stopping"
    /\ UNCHANGED <<ws, inbound, calls, messages, items, errlog, issued>>

\* fn stopped
Stopped ==
    /\ phase = "Stopping"
    /\ Invoke("stopped", "close", None, 0, <<>>, "Stopped")
    /\ UNCHANGED <<ws, inbound, issued>>

(***************************************************************************)
(* impl StreamHandler<Result<ws::Message, ws::ProtocolError>> for MyWs     *)
(***************************************************************************)
\* variant: events are still taken in while the actor is stopping
ReceivableWhileStopping ==
    phase \in {"Active", "Stopping"} /\ Len(inbound) < MaxEvents

\* variant: no event is taken in while a spawned future is pending
ReceivableBlocking == phase = "Active" /\ Len(inbound) < MaxEvents /\ items = {}

Receivable == phase = "Active" /\ Len(inbound) < MaxEvents

Event(kind, payload) == [kind |-> kind, payload |-> payload]

\* Ok(ws::Message::Ping(msg))
HandlePing ==
    \E msg \in Bins :
        /\ Receivable
        /\ inbound' = Append(inbound, Event("Ping", msg))
        /\ Invoke("handle", "connect", None, Len(inbound) + 1,
                  <<Frame("Pong", msg, Len(inbound) + 1, 0)>>, "Active")
        /\ UNCHANGED <<ws, issued>>

\* variant: the pong reply is queued ahead of the frames already queued
HandlePongPrepend ==
    \E msg \in Bins :
        /\ phase = "Active" /\ Len(inbound) < MaxEvents
        /\ inbound' = Append(inbound, Event("Pong", msg))
        /\ messages' = <<Frame("Pong", msg, Len(inbound) + 1, 0)>> \o messages
        /\ UNCHANGED <<ws, phase, calls, items, errlog, issued>>

\* Ok(ws::Message::Pong(msg))
HandlePong ==
    \E msg \in Bins :
        /\ Receivable
        /\ inbound' = Append(inbound, Event("Pong", msg))
        /\ messages' = Append(messages, Frame("Pong", msg, Len(inbound) + 1, 0))
        /\ UNCHANGED <<ws, phase, calls, items, errlog, issued>>

\* Ok(ws::Message::Text(text))
HandleText ==
    \E text \in Texts :
        /\ Receivable
        /\ inbound' = Append(inbound, Event("Text", text))
        /\ Invoke("handle", "message", Some(text), Len(inbound) + 1, <<>>, "Active")
        /\ UNCHANGED <<ws, issued>>

\* variant: a binary frame is also dispatched to the message handler
HandleBinaryDispatched ==
    \E bin \in Bins :
        /\ Receivable
        /\ inbound' = Append(inbound, Event("Binary", bin))
        /\ Invoke("handle", "message", Some(bin), Len(inbound) + 1,
                  <<Frame("Binary", bin, Len(inbound) + 1, 0)>>, "Active")
        /\ UNCHANGED <<ws, issued>>

\* Ok(ws::Message::Binary(bin)) => ctx.binary(bin)
HandleBinary ==
    \E bin \in Bins :
        /\ Receivable
        /\ inbound' = Append(inbound, Event("Binary", bin))
        /\ messages' = Append(messages, Frame("Binary", bin, Len(inbound) + 1, 0))
        /\ UNCHANGED <<ws, phase, calls, items, errlog, issued>>

\* Ok(ws::Message::Close(_close_reason))
HandleClose ==
    /\ Receivable
    /\ inbound' = Append(inbound, Event("Close", ""))
    /\ Invoke("handle", "close", None, Len(inbound) + 1, <<>>, "Active")
    /\ UNCHANGED <<ws, issued>>

\* _ => ()   (Continuation, Nop, Err(ProtocolError))
HandleOther ==
    /\ Receivable
    /\ inbound' = Append(inbound, Event("Err", ""))
    /\ UNCHANGED <<ws, phase, calls, messages, items, errlog, issued>>

(***************************************************************************)
(* The future spawned by the suspending branch completes in the actor's    *)
(* context:                                                                *)
(*   let output = fut.await.unwrap();                                      *)
(*   output.extract::<&str>(py).unwrap().to_string()                       *)
(*   .map(|res, _, ctx| ctx.text(res))                                     *)
(* The context polls its items only while the actor runs.                  *)
(***************************************************************************)
Complete(inv) ==
    /\ phase = "Active"
    /\ inv \in items
    /\ \E r \in Resolutions :
          /\ calls' = [calls EXCEPT ![inv].out = r]
          /\ items' = items \ {inv}
          /\ IF r.kind = "str"
             THEN /\ messages' = messages \o AsyncReply(r.val, calls[inv].ev, inv)
                  /\ UNCHANGED phase
             ELSE /\ phase' = "Crashed"
                  /\ UNCHANGED messages
    /\ UNCHANGED <<ws, inbound, errlog, issued>>

\* every invocation index a session of this model can reach
Invs == 1 .. (MaxEvents + 2)

CompleteTask == \E inv \in Invs : Complete(inv)

Next ==
    \/ Started
    \/ HandlePing
    \/ HandlePong
    \/ HandleText
    \/ HandleBinary
    \/ HandleClose
    \/ HandleOther
    \/ CompleteTask
    \/ Finished
    \/ Stopped

Spec == Init /\ [][Next]_vars

(***************************************************************************)
(* The spawned futures are polled by the running actor's context, so a     *)
(* future that stays ready to complete does complete; a session spawns     *)
(* finitely many, so fairness of the completion step reaches each of them. *)
(* A context that was stopped runs its stopped hook.                        *)
(***************************************************************************)
InitFair ==
    \E router \in SuspendingMessageRouters, u \in Uuids :
        /\ start_web_socket(router, u)
        /\ issued = <<u>>

FairSpec ==
    /\ InitFair
    /\ [][Next]_vars
    /\ WF_vars(CompleteTask)
    /\ WF_vars(Stopped)

(***************************************************************************)
(* Several sessions: start_web_socket is called once per upgraded          *)
(* connection, each call drawing a fresh Uuid::new_v4().  Sessions share   *)
(* no state, so they are followed one after another; issued records the    *)
(* identities handed out so far.                                           *)
(***************************************************************************)
InitSessions ==
    \E router \in SessionRouters, u \in Uuids :
        /\ start_web_socket(router, u)
        /\ issued = <<u>>

StartWebSocket ==
    /\ phase \in {"Stopped", "Crashed"}
    /\ Len(issued) < MaxSessions
    /\ \E u \in Uuids :
          /\ ws' = [id |-> u, router |-> ws.router]
          /\ issued' = Append(issued, u)
    /\ phase' = "Starting"
    /\ inbound' = <<>>
    /\ calls' = <<>>
    /\ messages' = <<>>
    /\ items' = {}
    /\ errlog' = <<>>

NextSessions ==
    \/ Next
    \/ StartWebSocket

SpecSessions == InitSessions /\ [][NextSessions]_vars

(***************************************************************************)
(* Properties.                                                             *)
(***************************************************************************)
\* the frames pushed while handling inbound event i
FramesOfEv(i) == SelectSeq(messages, LAMBDA f : f.ev = i)

\* the frames that carry the result of invocation k
FramesOfInv(k) == SelectSeq(messages, LAMBDA f : f.inv = k)

\* the invocations made while handling inbound event i
CallsOfEv(i) == {k \in DOMAIN calls : calls[k].hook = "handle" /\ calls[k].ev = i}

\* the invocations of the handler registered under name
CallsOf(name) == {k \in DOMAIN calls : calls[k].name = name}

\* the records logged for invocation k
LogsOfInv(k) == SelectSeq(errlog, LAMBDA l : l.inv = k)

\* the inbound events of one kind handled so far
EventsOfKind(kind) == {i \in DOMAIN inbound : inbound[i].kind = kind}

\* C1: in every session run (of a peer that sends at most one Close frame)
\* the close handler is invoked at most once, whether by the Close arm, by
\* the stopped hook, or by both in sequence.
C1_CloseAtMostOnce ==
    Cardinality(EventsOfKind("Close")) <= 1 => Cardinality(CallsOf("close")) <= 1

\* C2: when a synchronous handler invoked for an inbound event raises, the
\* invocation produces no outbound frame and exactly one logged failure
\* record, and the session is still Active when the arm returns.
C2_SyncFailureIsReported ==
    [][(/\ Len(calls') = Len(calls) + 1
        /\ calls'[Len(calls')].hook = "handle"
        /\ ~calls'[Len(calls')].is_async
        /\ calls'[Len(calls')].out.kind = "raise")
       => (/\ phase' = "Active"
           /\ Len(errlog') = Len(errlog) + 1
           /\ \A j \in DOMAIN messages' : messages'[j].inv # Len(calls'))]_vars

\* C3: for every inbound Text frame handled with a synchronous message
\* handler that returns a string t, the frames produced for that event are
\* exactly one text frame with payload t.
C3_SyncTextReply ==
    \A i \in DOMAIN inbound :
        \A k \in CallsOfEv(i) :
            (/\ inbound[i].kind = "Text"
             /\ ~calls[k].is_async
             /\ calls[k].out.kind = "str")
            => FramesOfEv(i) = <<Frame("Text", calls[k].out.val, i, k)>>

C3_Witness ==
    \E i \in DOMAIN inbound :
        \E k \in CallsOfEv(i) :
            /\ inbound[i].kind = "Text"
            /\ calls[k].name = "message"
            /\ ~calls[k].is_async
            /\ calls[k].out = [kind |-> "str", val |-> "pong"]
            /\ Len(FramesOfEv(i)) = 1

\* C4: for every inbound Text frame handled with a synchronous message
\* handler that returns no value, the frames produced for that event are
\* exactly one text frame with the literal payload "OK".
C4_SyncTextDefaultOK ==
    \A i \in DOMAIN inbound :
        \A k \in CallsOfEv(i) :
            (/\ inbound[i].kind = "Text"
             /\ ~calls[k].is_async
             /\ calls[k].out.kind = "none")
            => FramesOfEv(i) = <<Frame("Text", "OK", i, k)>>

C4_Witness ==
    \E i \in DOMAIN inbound :
        \E k \in CallsOfEv(i) :
            /\ inbound[i].kind = "Text"
            /\ calls[k].name = "message"
            /\ ~calls[k].is_async
            /\ calls[k].out.kind = "none"
            /\ \E j \in DOMAIN messages : messages[j].payload = "OK" /\ messages[j].ev = i

\* C5: for every inbound Binary frame with payload b the session produces
\* exactly one outbound Binary frame with payload b and invokes no handler
\* for that event.
C5_BinaryEcho ==
    \A i \in DOMAIN inbound :
        inbound[i].kind = "Binary"
        => /\ FramesOfEv(i) = <<Frame("Binary", inbound[i].payload, i, 0)>>
           /\ CallsOfEv(i) = {}

C5_Witness ==
    \E i \in DOMAIN inbound :
        /\ inbound[i].kind = "Binary"
        /\ inbound[i].payload = "DEADBEEF"
        /\ \E j \in DOMAIN messages : messages[j].kind = "Binary" /\ messages[j].ev = i
        /\ calls # <<>>

\* an invocation of the suspending message handler whose future is pending
PendingMessage(k) ==
    k \in items /\ k \in DOMAIN calls /\ calls[k].name = "message"

\* the future of invocation k has completed with a string and exactly one
\* text frame carrying that string has been pushed for it
Replied(k) ==
    /\ k \in DOMAIN calls
    /\ k \notin items
    /\ calls[k].out.kind = "str"
    /\ FramesOfInv(k) = <<Frame("Text", calls[k].out.val, calls[k].ev, k)>>

\* the future of invocation k has completed without a string
ResolvedOtherwise(k) ==
    /\ k \in DOMAIN calls
    /\ k \notin items
    /\ calls[k].out.kind \in {"none", "raise", "other"}

\* the invocation indices an inbound event can have: the start hook makes
\* the first invocation and each event at most one
EventInvs == 2 .. (MaxEvents + 1)

\* C6 as stated: every Text frame dispatched to a suspending message handler
\* that resolves to a string t eventually has exactly one outbound text
\* frame t (runs in which a panic unwinds the session are left aside).
C6_AsyncReplyEventually ==
    \A k \in EventInvs :
        PendingMessage(k)
            ~> (Replied(k) \/ ResolvedOtherwise(k) \/ phase = "Crashed")

\* C6 as amended: the frame follows provided the session is still Active
\* when the handler completes; while the future is pending no frame exists
\* for the invocation, and once it has resolved to t the frames of the
\* invocation are exactly one whole text frame t.
C6_AsyncReplyWhileActive ==
    /\ \A k \in EventInvs : PendingMessage(k) ~> (Replied(k) \/ phase # "Active")
    /\ [](\A k \in DOMAIN calls :
            calls[k].is_async
            => IF k \notin items /\ calls[k].out.kind = "str"
               THEN FramesOfInv(k) =
                        <<Frame("Text", calls[k].out.val, calls[k].ev, k)>>
               ELSE FramesOfInv(k) = <<>>)

C6_Witness ==
    \E k \in DOMAIN calls :
        /\ calls[k].name = "message"
        /\ calls[k].is_async
        /\ inbound[calls[k].ev].kind = "Text"
        /\ Replied(k)
        /\ Len(inbound) > calls[k].ev

\* the invocations made by the start hook
StartCalls == {k \in DOMAIN calls : calls[k].hook = "started"}

\* the start hook has run with connect registered: connect was invoked once,
\* by the hook, with no payload
ConnectInvokedOnce ==
    (phase # "Starting" /\ "connect" \in DOMAIN ws.router)
    => /\ StartCalls = {1}
       /\ calls[1].name = "connect"
       /\ Len(calls[1].args) = 2 => calls[1].args[2] = ""

\* C7 as stated: on session start connect is invoked once with no payload and
\* no outbound frame results from that invocation.
C7_ConnectNotWritten ==
    /\ ConnectInvokedOnce
    /\ \A j \in DOMAIN messages : messages[j].inv \notin StartCalls

\* C7 as amended: on session start connect is invoked once with no payload
\* and the outcome of a synchronous connect handler is written back: exactly
\* one outbound text frame, carrying the returned string, or "OK" when the
\* handler returns no value.
C7_ConnectWrittenBack ==
    /\ ConnectInvokedOnce
    /\ \A k \in StartCalls :
          /\ (~calls[k].is_async /\ calls[k].out.kind = "str")
             => FramesOfInv(k) = <<Frame("Text", calls[k].out.val, 0, k)>>
          /\ (~calls[k].is_async /\ calls[k].out.kind = "none")
             => FramesOfInv(k) = <<Frame("Text", "OK", 0, k)>>

C7_Witness ==
    /\ phase = "Active"
    /\ \E k \in StartCalls :
          /\ ~calls[k].is_async
          /\ calls[k].out.kind = "none"
          /\ messages = <<Frame("Text", "OK", 0, k)>>

\* the payload handed to invocation k: the text of the Text frame being
\* handled, and nothing in every other arm and in the hooks
PayloadOf(k) ==
    IF calls[k].hook = "handle" /\ inbound[calls[k].ev].kind = "Text"
    THEN Some(inbound[calls[k].ev].payload)
    ELSE None

DeclaredParams(k) == ws.router[calls[k].name].number_of_params

\* C8: for every arity n and optional payload p the argument list of the
\* call is empty when n = 0, [identity as string] when n = 1, and
\* [identity as string, p or the empty string] when n >= 2.
C8_ArgumentList ==
    \A k \in DOMAIN calls :
        /\ DeclaredParams(k) = 0 => calls[k].args = <<>>
        /\ DeclaredParams(k) = 1 => calls[k].args = <<to_string(ws.id)>>
        /\ (DeclaredParams(k) >= 2 /\ PayloadOf(k) = None)
           => calls[k].args = <<to_string(ws.id), "">>
        /\ (DeclaredParams(k) >= 2 /\ PayloadOf(k) # None)
           => calls[k].args = <<to_string(ws.id), PayloadOf(k)[1]>>

C8_Witness ==
    \E k1, k2 \in DOMAIN calls :
        /\ DeclaredParams(k1) = U8Max
        /\ calls[k1].args = <<"67e5", "">>
        /\ calls[k2].name = "message"
        /\ calls[k2].args = <<"67e5", "ping">>

\* the identity assigned when the current session was created
AssignedId == issued[Len(issued)]

\* within one session the identity never changes and every invocation of a
\* handler that declares at least one parameter receives it first
IdentityStable ==
    /\ ws.id = AssignedId
    /\ \A k \in DOMAIN calls :
          DeclaredParams(k) >= 1 => calls[k].args[1] = to_string(AssignedId)

\* C9 as stated: the identity is stable within a session and two distinct
\* sessions are given distinct identities.
C9_IdentityStableAndDistinct ==
    /\ IdentityStable
    /\ \A i, j \in DOMAIN issued : i # j => issued[i] # issued[j]

\* C9 as amended: the identity is stable within a session (the identities of
\* distinct sessions are independent random draws, which the code does not
\* compare).
C9_IdentityStable == IdentityStable

C9_Witness ==
    /\ Len(issued) = 2
    /\ issued[1] # issued[2]
    /\ \E k1, k2 \in DOMAIN calls :
          /\ calls[k1].hook = "handle" /\ calls[k1].name = "connect"
          /\ calls[k2].hook = "stopped" /\ calls[k2].name = "close"
          /\ DeclaredParams(k1) >= 1
          /\ calls[k1].args[1] = to_string(issued[2])
          /\ calls[k2].args[1] = to_string(issued[2])

\* C10: a session whose registry lacks connect, message or close never
\* reaches the Active phase and never processes an inbound event.
C10_IncompleteRegistryNeverRuns ==
    DOMAIN ws.router # EventNames
    => /\ phase \in {"Starting", "Crashed"}
       /\ inbound = <<>>

\* C11: after the session has processed a Close frame from the peer it has
\* left the Active phase: no inbound event received after the Close frame is
\* dispatched (no frame is produced and no handler is invoked for it).
C11_NothingDispatchedAfterClose ==
    \A i, j \in DOMAIN inbound :
        (inbound[i].kind = "Close" /\ i < j)
        => /\ FramesOfEv(j) = <<>>
           /\ CallsOfEv(j) = {}

\* a step in which a suspending handler fails: the call that should hand
\* back the coroutine fails, or the awaited coroutine raises or resolves to
\* a value that is no string
AsyncFailureStep ==
    \/ /\ Len(calls') = Len(calls) + 1
       /\ calls'[Len(calls')].hook = "handle"
       /\ calls'[Len(calls')].is_async
       /\ calls'[Len(calls')].out.kind = "callraise"
    \/ \E k \in items :
          /\ k \notin items'
          /\ calls'[k].out.kind \in {"none", "raise", "other"}

\* C12: a suspending handler that fails produces a reported failure, as an
\* extraction failure of a synchronous handler does, and the session stays
\* Active so that later events are still processed.
C12_AsyncFailureIsReported ==
    [][AsyncFailureStep
       => /\ phase' = "Active"
          /\ Len(errlog') = Len(errlog) + 1]_vars

\* while a spawned future is pending the session takes in every kind of event
IntakeOpen ==
    (phase = "Active" /\ items # {} /\ Len(inbound) < MaxEvents)
    => /\ ENABLED HandlePing
       /\ ENABLED HandlePong
       /\ ENABLED HandleText
       /\ ENABLED HandleBinary
       /\ ENABLED HandleClose
       /\ ENABLED HandleOther

\* one step of the session appends the frames of one origin to the end of
\* the outbound queue; a completing future appends at most its own frame
WritesSerialized ==
    /\ Len(messages') >= Len(messages)
    /\ SubSeq(messages', 1, Len(messages)) = messages
    /\ \A p, q \in (Len(messages) + 1) .. Len(messages') :
          messages'[p].ev = messages'[q].ev
    /\ \A k \in items \ items' :
          /\ Len(messages') <= Len(messages) + 1
          /\ \A p \in (Len(messages) + 1) .. Len(messages') :
                messages'[p].inv = k

\* C13: a suspending handler does not block event intake (while its future
\* is pending the session can take in the next event of any kind), and every
\* outbound write, a completion's included, is one step of the session that
\* appends to the end of the outbound queue, so writes never interleave.
C13_IntakeNotBlockedWritesSerialized ==
    [](IntakeOpen) /\ [][WritesSerialized]_vars

\* a later event has been processed and answered while the message handler's
\* future of an earlier Text frame is still pending
C13_Witness ==
    \E k \in items :
        /\ calls[k].name = "message"
        /\ calls[k].ev < Len(inbound)
        /\ FramesOfEv(Len(inbound)) # <<>>

AllSync == \A n \in DOMAIN ws.router : ~ws.router[n].is_async

\* C14: events are handled one at a time in arrival order, and when every
\* handler is synchronous the outbound frames appear in the order of the
\* inbound events that produced them: every frame of an earlier event
\* precedes every frame of a later event.
C14_SyncFramesInEventOrder ==
    /\ \A k1, k2 \in DOMAIN calls :
          (k1 < k2 /\ calls[k1].ev >= 1 /\ calls[k2].ev >= 1)
          => calls[k1].ev <= calls[k2].ev
    /\ AllSync
       => \A p, q \in DOMAIN messages :
             (p < q /\ messages[p].ev >= 1 /\ messages[q].ev >= 1)
             => messages[p].ev <= messages[q].ev

C14_Witness ==
    /\ AllSync
    /\ \E p, q \in DOMAIN messages :
          /\ p < q
          /\ messages[p].ev = 1 /\ messages[p].inv # 0
          /\ messages[q].ev = 2 /\ messages[q].inv # 0

\* C15: nothing is written during or after teardown: the close handler
\* invoked from the stopped hook results in no outbound frame and in no
\* error, and no future of a suspending handler writes a frame once the
\* stopped hook has run.
C15_NoFrameFromTeardown ==
    /\ \A j \in DOMAIN messages :
          messages[j].inv # 0 => calls[messages[j].inv].hook # "stopped"
    /\ \A k \in DOMAIN calls :
          calls[k].hook = "stopped" => phase # "Crashed"

\* the frames of kind Pong written for inbound event i
PongsOfEv(i) == SelectSeq(FramesOfEv(i), LAMBDA f : f.kind = "Pong")

\* C16: every inbound Ping with payload p that the session has processed
\* is answered with exactly one Pong frame carrying p, and the connect
\* handler has been invoked exactly once for it, with no payload.
C16_PingPongAndConnect ==
    \A i \in EventsOfKind("Ping") :
        /\ PongsOfEv(i) = <<Frame("Pong", inbound[i].payload, i, 0)>>
        /\ Cardinality(CallsOfEv(i)) = 1
        /\ \A k \in CallsOfEv(i) :
              /\ calls[k].name = "connect"
              /\ \A a \in DOMAIN calls[k].args : calls[k].args[a] # inbound[i].payload
              /\ Len(calls[k].args) = 2 => calls[k].args[2] = unwrap_or_default(None)

\* C17: a transport failure delivered to the session as an Err item makes it
\* leave the Active phase: once such an item has been received the session
\* is no longer Active.
C17_ErrLeavesActive ==
    EventsOfKind("Err") # {} => phase # "Active"

\* a step in which the extraction of a handler's result fails: a synchronous
\* handler returned, or a coroutine resolved to, a value that cannot be
\* converted to a string
ExtractionFailureStep(k) ==
    \/ /\ Len(calls') = Len(calls) + 1
       /\ k = Len(calls')
       /\ ~calls'[k].is_async
       /\ calls'[k].out.kind = "other"
    \/ /\ k \in items
       /\ k \notin items'
       /\ calls'[k].out.kind = "other"

\* C18: an extraction failure is handled alike on the synchronous and the
\* suspending path: it is logged, the invocation gets no outbound frame, and
\* the session goes on (the phase is the one the invocation would have left
\* on success).
C18_ExtractionFailureIsLogged ==
    [][\A k \in Invs :
          ExtractionFailureStep(k)
          => /\ Len(errlog') = Len(errlog) + 1
             /\ errlog'[Len(errlog')].inv = k
             /\ SelectSeq(messages', LAMBDA f : f.inv = k) = <<>>
             /\ phase' # "Crashed"]_vars

PhaseRank ==
    [q \in {"Starting", "Active", "Stopping", "Stopped"} |->
        CASE q = "Starting" -> 0 [] q = "Active" -> 1
          [] q = "Stopping" -> 2 [] q = "Stopped" -> 3]

\* the invocations made by the given lifecycle hook
HookCalls(hook) == {k \in DOMAIN calls : calls[k].hook = hook}

\* C19: the lifecycle phase only moves one step forward along Starting,
\* Active, Stopping, Stopped (a panic ends the lifecycle and nothing follows
\* it), and an inbound event is dispatched only in the Active phase, after
\* the start hook has invoked connect and before the stopped hook has run.
C19_PhaseOrder ==
    [][/\ phase' # phase
          => /\ phase # "Crashed"
             /\ phase' # "Crashed" => PhaseRank[phase'] = PhaseRank[phase] + 1
       /\ Len(inbound') > Len(inbound)
          => /\ phase = "Active"
             /\ \E k \in HookCalls("started") : calls[k].name = "connect"
             /\ HookCalls("stopped") = {}
             /\ \A k \in DOMAIN calls' \ DOMAIN calls : calls'[k].hook = "handle"]_vars

\* a session that ran through all four phases and dispatched events
C19_Witness ==
    /\ phase = "Stopped"
    /\ Len(inbound) = MaxEvents
    /\ CallsOfEv(1) # {}
    /\ HookCalls("started") # {}
    /\ HookCalls("stopped") # {}

\* C20: when the connect handler is synchronous and returns a string or
\* None, a processed Ping with payload p has exactly two outbound frames, in
\* this order: the Text frame with the handler's result (or "OK"), then the
\* Pong frame with p.
C20_PingTextThenPong ==
    \A i \in EventsOfKind("Ping") :
        \A k \in CallsOfEv(i) :
            (~calls[k].is_async /\ calls[k].out.kind \in {"str", "none"})
            => FramesOfEv(i) =
                  << Frame("Text",
                           IF calls[k].out.kind = "str"
                           THEN calls[k].out.val ELSE "OK", i, k),
                     Frame("Pong", inbound[i].payload, i, 0) >>

C20_Witness ==
    \E i \in EventsOfKind("Ping") :
        \E k \in CallsOfEv(i) :
            /\ ~calls[k].is_async
            /\ calls[k].out.kind = "none"
            /\ Len(FramesOfEv(i)) = 2
            /\ FramesOfEv(i)[2].kind = "Pong"

====
